---------------------------- MODULE Spec2Model ----------------------------
(***************************************************************************)
(* Model of the conversational answering engine of VirtualClone            *)
(* (app/services/ai_service.py): the LRUCache answer cache, the repetition *)
(* detector, the diversity selector and answer_question_with_context, run  *)
(* one call at a time (Spec) and as two interleaved request threads        *)
(* (SpecConc).                                                             *)
(*                                                                         *)
(* A Python str is a sequence of one-character strings.  A hexdigest is    *)
(* the pair <<"md5", s>> of the digested text: MD5 is taken to be          *)
(* collision free on the handful of questions of the model.                *)
(***************************************************************************)
EXTENDS Naturals, Sequences, FiniteSets

VARIABLES
    response_cache,   \* AIService.response_cache: the OrderedDict, oldest entry first
    last,             \* what the latest answer_question_with_context call did
    ncalls,           \* calls made so far
    history,          \* SpecSession: session['conversation_history'] of the caller
    log,              \* SpecSession: the calls of the session, in order
    thr               \* SpecConc: each request thread's position and locals

vars == <<response_cache, last, ncalls, history, log, thr>>

---------------------------------------------------------------------------
(* Bounds *)

\* LRUCache.maxsize, scaled down from the default of 100
maxsize == 2

\* sequential calls explored
MaxCalls == 3

\* turns in a history handed to a call
MaxHist == 1

\* chat requests of one session
MaxTurns == 4

\* candidates the Question Answerer returns at most
MaxCands == 2

\* turns in a history handed to a helper called on its own
MaxTurnsGiven == 6

\* candidates of a pool handed to the selector
MaxPool == 5

\* chat requests of one long session
MaxLongTurns == 12

---------------------------------------------------------------------------
(* Program constants *)

AI_QA_TOP_K_PRIMARY == 3
AI_QA_TOP_K_DIVERSE == 5
CONVERSATION_RECENT_EXCHANGES == 3
REPETITION_HISTORY_WINDOW == 5
\* REPETITION_SIMILARITY_THRESHOLD = 0.7 = THRESHOLD_NUM / THRESHOLD_DEN
THRESHOLD_NUM == 7
THRESHOLD_DEN == 10
\* result[:slice_end], slice_end = min(len(result), 3)
DIVERSE_SLICE == 3

\* api_routes.chat: conversation_history[-5:] is passed, [-10:] is kept
HISTORY_PASSED == 5
HISTORY_KEPT == 10

APOLOGY == "I apologize, but I'm having trouble processing your question right now."
UNDERSTAND == "I understand you're asking about this topic."
TROUBLE == "I'm having trouble processing that question."

---------------------------------------------------------------------------
(* Inputs *)

Min(a, b) == IF a < b THEN a ELSE b

\* single-word questions that only serve to fill the cache: maxsize - 1 of them
FillerLetters == <<"c", "d", "e", "f">>
Fillers == {<<FillerLetters[i]>> : i \in 1..Min(maxsize - 1, Len(FillerLetters))}

\* "a b"; "A b " (same text up to case and outer blanks); "b a" (same words,
\* another text); and the fillers
Questions ==
    {<<"a", " ", "b">>, <<"A", " ", "b", " ">>, <<"b", " ", "a">>} \cup Fillers

Answers == {"42", "B"}

\* a ConversationTurn is <<question, answer>>; the earlier turns asked "a b"
Turns == {<<<<"a", " ", "b">>, "42">>}

RECURSIVE SeqsUpTo(_, _)
SeqsUpTo(S, n) ==
    IF n = 0 THEN {<<>>}
    ELSE LET shorter == SeqsUpTo(S, n - 1)
         IN  shorter \cup {Append(s, x) : s \in {t \in shorter : Len(t) = n - 1}, x \in S}

Histories == SeqsUpTo(Turns, MaxHist)

---------------------------------------------------------------------------
(* str methods *)

\* the blanks of str.split() and str.strip()
IsSpace(ch) == ch \in {" ", "\t", "\n"}

LowerChar(ch) ==
    CASE ch = "A" -> "a"
      [] ch = "B" -> "b"
      [] ch = "H" -> "h"
      [] ch = "I" -> "i"
      [] ch = "M" -> "m"
      [] ch = "W" -> "w"
      [] OTHER -> ch

\* str.lower()
lower(s) == [i \in 1..Len(s) |-> LowerChar(s[i])]

RECURSIVE lstrip(_)
lstrip(s) == IF s # <<>> /\ IsSpace(Head(s)) THEN lstrip(Tail(s)) ELSE s

RECURSIVE rstrip(_)
rstrip(s) ==
    IF s # <<>> /\ IsSpace(s[Len(s)]) THEN rstrip(SubSeq(s, 1, Len(s) - 1)) ELSE s

\* str.strip()
strip(s) == rstrip(lstrip(s))

\* str.split(): the maximal runs of non-blank characters, in order
RECURSIVE SplitFrom(_, _, _)
SplitFrom(s, i, word) ==
    IF i > Len(s) THEN (IF word = <<>> THEN <<>> ELSE <<word>>)
    ELSE IF IsSpace(s[i])
         THEN (IF word = <<>> THEN <<>> ELSE <<word>>) \o SplitFrom(s, i + 1, <<>>)
         ELSE SplitFrom(s, i + 1, Append(word, s[i]))

split(s) == SplitFrom(s, 1, <<>>)

Range(s) == {s[i] : i \in 1..Len(s)}

\* the last n elements of s: s[-n:]
LastN(s, n) == IF Len(s) <= n THEN s ELSE SubSeq(s, Len(s) - n + 1, Len(s))

\* the first n elements of s: s[:n]
FirstN(s, n) == IF Len(s) <= n THEN s ELSE SubSeq(s, 1, n)

---------------------------------------------------------------------------
(* LRUCache(OrderedDict): a sequence of [key, val] entries, oldest first *)

Keys(c) == {c[i].key : i \in 1..Len(c)}

\* key in self
Contains(c, k) == k \in Keys(c)

IndexOf(c, k) == CHOOSE i \in 1..Len(c) : c[i].key = k

Without(c, i) == SubSeq(c, 1, i - 1) \o SubSeq(c, i + 1, Len(c))

\* OrderedDict.__getitem__: LRUCache does not override it, the order is kept
getitem(c, k) == c[IndexOf(c, k)].val

\* OrderedDict.move_to_end(key)
move_to_end(c, k) == Append(Without(c, IndexOf(c, k)), c[IndexOf(c, k)])

\* OrderedDict.__setitem__: a present key keeps its place, a new key goes last
dict_setitem(c, k, v) ==
    IF Contains(c, k)
    THEN [c EXCEPT ![IndexOf(c, k)].val = v]
    ELSE Append(c, [key |-> k, val |-> v])

\* OrderedDict.__delitem__ of a key that is present
delitem(c, k) == Without(c, IndexOf(c, k))

\* next(iter(self))
oldest_key(c) == c[1].key

\* mutant: the overflow is never evicted
LRUCache_setitem_keeps_all(c, k, v) ==
    dict_setitem(IF Contains(c, k) THEN move_to_end(c, k) ELSE c, k, v)

\* mutant: len(self) >= self.maxsize evicts one entry too early
LRUCache_setitem_evicts_early(c, k, v) ==
    LET moved == IF Contains(c, k) THEN move_to_end(c, k) ELSE c
        stored == dict_setitem(moved, k, v)
    IN  IF Len(stored) >= maxsize THEN delitem(stored, oldest_key(stored)) ELSE stored

\* LRUCache.__setitem__
LRUCache_setitem(c, k, v) ==
    LET moved == IF Contains(c, k) THEN move_to_end(c, k) ELSE c
        stored == dict_setitem(moved, k, v)
    IN  IF Len(stored) > maxsize THEN delitem(stored, oldest_key(stored)) ELSE stored

\* mutant: the append is lost
list_append_lost(c, k, r) == c

\* self.response_cache[key].append(response), the key present: the list is
\* changed in place
list_append(c, k, r) == [c EXCEPT ![IndexOf(c, k)].val = Append(@, r)]

---------------------------------------------------------------------------
(* AIService: pure helpers *)

md5(s) == <<"md5", s>>

\* mutant: the question is digested as it was typed
_get_question_hash_as_typed(question) == md5(question)

_get_question_hash(question) == md5(strip(lower(question)))

\* mutant: words that occur twice count twice in the union
_calculate_similarity_counts_repeats(text1, text2) ==
    LET words1 == Range(split(text1))
        words2 == Range(split(text2))
    IN  IF words1 = {} \/ words2 = {}
        THEN [num |-> 0, den |-> 1]
        ELSE [num |-> Cardinality(words1 \cap words2),
              den |-> Len(split(text1)) + Len(split(text2))
                        - Cardinality(words1 \cap words2)]

\* mutant: the intersection is measured against the first text alone
_calculate_similarity_over_first(text1, text2) ==
    LET words1 == Range(split(text1))
        words2 == Range(split(text2))
    IN  IF words1 = {} \/ words2 = {}
        THEN [num |-> 0, den |-> 1]
        ELSE [num |-> Cardinality(words1 \cap words2), den |-> Cardinality(words1)]

\* len(intersection) / len(union) as the fraction [num, den]; 0.0 is 0/1
_calculate_similarity(text1, text2) ==
    LET words1 == Range(split(text1))
        words2 == Range(split(text2))
    IN  IF words1 = {} \/ words2 = {}
        THEN [num |-> 0, den |-> 1]
        ELSE [num |-> Cardinality(words1 \cap words2),
              den |-> Cardinality(words1 \cup words2)]

\* mutant: a similarity equal to the threshold counts
ExceedsThreshold_or_equals(sim) == sim.num * THRESHOLD_DEN >= THRESHOLD_NUM * sim.den

\* similarity > Config.REPETITION_SIMILARITY_THRESHOLD
ExceedsThreshold(sim) == sim.num * THRESHOLD_DEN > THRESHOLD_NUM * sim.den

\* mutant: every turn of the history is looked at
_is_repetitive_question_whole_history(question, conversation_history) ==
    \E i \in 1..Len(conversation_history) :
        ExceedsThreshold(
            _calculate_similarity(lower(question), lower(conversation_history[i][1])))

_is_repetitive_question(question, conversation_history) ==
    IF conversation_history = <<>> THEN FALSE
    ELSE LET recent == LastN(conversation_history, REPETITION_HISTORY_WINDOW)
         IN  \E i \in 1..Len(recent) :
                ExceedsThreshold(
                    _calculate_similarity(lower(question), lower(recent[i][1])))

\* mutant: the oldest turns are rendered instead of the latest
_build_enhanced_context_oldest(base_context, conversation_history) ==
    IF conversation_history = <<>> THEN <<base_context>>
    ELSE LET recent == FirstN(conversation_history, CONVERSATION_RECENT_EXCHANGES)
         IN  <<base_context, "\n\nRecent Conversation Context:\n">>
             \o [i \in 1..Len(recent) |->
                   [q |-> recent[i][1], a |-> recent[i][2]]]

\* the context string as the sequence of its pieces
_build_enhanced_context(base_context, conversation_history) ==
    IF conversation_history = <<>> THEN <<base_context>>
    ELSE LET recent == LastN(conversation_history, CONVERSATION_RECENT_EXCHANGES)
         IN  <<base_context, "\n\nRecent Conversation Context:\n">>
             \o [i \in 1..Len(recent) |->
                   [q |-> recent[i][1], a |-> recent[i][2]]]

\* dict.fromkeys(candidates): the distinct texts in first-seen order
RECURSIVE Dedupe(_)
Dedupe(s) ==
    IF s = <<>> THEN <<>>
    ELSE LET init == Dedupe(SubSeq(s, 1, Len(s) - 1))
         IN  IF s[Len(s)] \in Range(init) THEN init ELSE Append(init, s[Len(s)])

\* [r for r in cached_responses if r != cached_responses[-1]]
NotLast(cached) == SelectSeq(cached, LAMBDA r : r # cached[Len(cached)])

---------------------------------------------------------------------------
(* The Question Answerer: self.qa_pipeline(question=, context=, top_k=, ...) *)

\* How the Question Answerer can behave on a call: it raises ("raise"), ranks
\* a list of candidates ("list"), gives a single candidate as a dict ("dict")
\* or gives anything else ("other": None, an empty iterable).  cands holds
\* the candidates' 'answer' texts, best first.
QABehaviours ==
    {[kind |-> "raise", cands |-> <<>>], [kind |-> "other", cands |-> <<>>]}
    \cup {[kind |-> "dict", cands |-> <<a>>] : a \in Answers}
    \cup {[kind |-> "list", cands |-> s] : s \in SeqsUpTo(Answers, MaxCands)}

\* one invocation: a list holds at most top_k candidates
qa_pipeline(qa, question, context, top_k) ==
    IF qa.kind = "list" THEN [kind |-> "list", cands |-> FirstN(qa.cands, top_k)] ELSE qa

\* what an invocation came back with, for the record of the call
QaTag(result) ==
    CASE result.kind = "raise" -> "raise"
      [] result.kind = "other" -> "other"
      [] result.cands = <<>> -> "empty"
      [] OTHER -> "cands"

---------------------------------------------------------------------------
(* AIService: the selector and the orchestrator, one call as a whole.      *)
(* Each operator gives the set of ways the call can end, one per outcome   *)
(* of random.choice:                                                       *)
(*   cache   the response_cache afterwards                                 *)
(*   raised  an exception leaves the function                              *)
(*   value   the returned string (the exception's name when raised)        *)
(* and, from the orchestrator,                                             *)
(*   path    "primary", "stored" (lines 215-218) or "fresh" (lines 220-246)*)
(*   qa      QaTag of the Question Answerer's result, "none": not invoked  *)

\* if question_hash not in self.response_cache: self.response_cache[question_hash] = []
\* self.response_cache[question_hash].append(response)
store_response(c, question_hash, response) ==
    LET c1 == IF ~Contains(c, question_hash)
              THEN LRUCache_setitem(c, question_hash, <<>>)
              ELSE c
    IN  IF Contains(c1, question_hash)
        THEN [cache |-> list_append(c1, question_hash, response), raised |-> FALSE,
              value |-> response]
        ELSE [cache |-> c1, raised |-> TRUE, value |-> "KeyError"]

\* mutant: the choice is among the first three distinct candidates
PrimaryChoices_first_three(result) ==
    CASE result.kind = "list" ->
            LET unique_candidates == Dedupe(result.cands)
            IN  IF Len(unique_candidates) > 1
                THEN {unique_candidates[i] : i \in 1..Min(Len(unique_candidates), 3)}
                ELSE Range(unique_candidates)
      [] result.kind = "dict" -> {result.cands[1]}
      [] OTHER -> {TROUBLE}

\* lines 260-275: the responses random.choice can pick on the primary path;
\* none when unique_candidates[0] raises IndexError
PrimaryChoices(result) ==
    CASE result.kind = "list" ->
            LET unique_candidates == Dedupe(result.cands)
            IN  IF Len(unique_candidates) > 1
                THEN {unique_candidates[i] : i \in 1..2}
                ELSE Range(unique_candidates)
      [] result.kind = "dict" -> {result.cands[1]}
      [] OTHER -> {TROUBLE}

_select_diverse_response(c, result, question_hash) ==
    IF PrimaryChoices(result) = {}
    THEN {[cache |-> c, raised |-> TRUE, value |-> "IndexError"]}
    ELSE {store_response(c, question_hash, response) :
            response \in PrimaryChoices(result)}

\* mutant: the except clause lets the exception go on
DiverseCaught_reraises(c) == [cache |-> c, raised |-> TRUE, value |-> "Exception"]

\* the except clause of _generate_diverse_response, lines 244-246
DiverseCaught(c) == [cache |-> c, raised |-> FALSE, value |-> UNDERSTAND]

\* mutant: the choice is among all the candidates of the pool
DiverseChoices_whole_pool(result) ==
    CASE result.kind = "list" -> Range(result.cands)
      [] result.kind = "dict" -> {result.cands[1]}
      [] OTHER -> {UNDERSTAND}

\* lines 228-238: the responses random.choice can pick on the diverse path;
\* none when random.choice([]) raises IndexError
DiverseChoices(result) ==
    CASE result.kind = "list" ->
            {result.cands[i] : i \in 1..Min(Len(result.cands), DIVERSE_SLICE)}
      [] result.kind = "dict" -> {result.cands[1]}
      [] OTHER -> {UNDERSTAND}

\* lines 220-246: the try block of _generate_diverse_response, given what the
\* Question Answerer came back with
DiverseFresh(c, result, question_hash) ==
    IF result.kind = "raise" \/ DiverseChoices(result) = {}
    THEN {DiverseCaught(c)}
    ELSE {LET s == store_response(c, question_hash, response)
          IN  IF s.raised THEN DiverseCaught(s.cache) ELSE s :
            response \in DiverseChoices(result)}

\* mutant: an empty pool gives the empty string
DiverseStored_empty_default(c, question_hash) ==
    LET pool == NotLast(getitem(c, question_hash))
    IN  IF pool = <<>>
        THEN {[cache |-> c, raised |-> FALSE, value |-> ""]}
        ELSE {[cache |-> c, raised |-> FALSE, value |-> pool[i]] : i \in 1..Len(pool)}

\* mutant: the answer served from the store is stored once more
DiverseStored_appends(c, question_hash) ==
    LET pool == NotLast(getitem(c, question_hash))
    IN  IF pool = <<>>
        THEN {[cache |-> c, raised |-> TRUE, value |-> "IndexError"]}
        ELSE {[cache |-> list_append(c, question_hash, pool[i]), raised |-> FALSE,
               value |-> pool[i]] : i \in 1..Len(pool)}

\* lines 216-218: random.choice among the stored answers that differ from the
\* last one; the line is outside the try block
DiverseStored(c, question_hash) ==
    LET pool == NotLast(getitem(c, question_hash))
    IN  IF pool = <<>>
        THEN {[cache |-> c, raised |-> TRUE, value |-> "IndexError"]}
        ELSE {[cache |-> c, raised |-> FALSE, value |-> pool[i]] : i \in 1..Len(pool)}

\* mutant: one stored answer is enough to skip the Question Answerer
ServedFromStore_one_is_enough(c, question_hash) ==
    Contains(c, question_hash) /\ Len(getitem(c, question_hash)) >= 1

\* lines 215-217: question_hash in self.response_cache and len(cached_responses) > 1
ServedFromStore(c, question_hash) ==
    Contains(c, question_hash) /\ Len(getitem(c, question_hash)) > 1

Tag(outcomes, path, qa) ==
    {[cache |-> o.cache, raised |-> o.raised, value |-> o.value,
      path |-> path, qa |-> qa] : o \in outcomes}

_generate_diverse_response(c, qa, question, context, question_hash) ==
    IF ServedFromStore(c, question_hash)
    THEN Tag(DiverseStored(c, question_hash), "stored", "none")
    ELSE LET result == qa_pipeline(qa, question, context, AI_QA_TOP_K_DIVERSE)
         IN  Tag(DiverseFresh(c, result, question_hash), "fresh", QaTag(result))

\* the except clause of answer_question_with_context, lines 119-121
PrimaryCaught(c) == [cache |-> c, raised |-> FALSE, value |-> APOLOGY]

\* mutant: the apology of a failed call is recorded like an answer
Primary_records_apology(c, result, question_hash) ==
    IF result.kind = "raise"
    THEN {[cache |-> store_response(c, question_hash, APOLOGY).cache,
           raised |-> FALSE, value |-> APOLOGY]}
    ELSE {IF o.raised THEN PrimaryCaught(o.cache) ELSE o :
            o \in _select_diverse_response(c, result, question_hash)}

\* lines 109-121: the try block of answer_question_with_context
Primary(c, result, question_hash) ==
    IF result.kind = "raise" THEN {PrimaryCaught(c)}
    ELSE {IF o.raised THEN PrimaryCaught(o.cache) ELSE o :
            o \in _select_diverse_response(c, result, question_hash)}

\* mutant: a fingerprint that is already in the cache sends the call down the
\* diverse path
answer_question_with_context_by_cache(c, qa, question, base_context, conversation_history) ==
    LET enhanced_context == _build_enhanced_context(base_context, conversation_history)
        question_hash == _get_question_hash(question)
    IN  IF \/ _is_repetitive_question(question, conversation_history)
           \/ Contains(c, question_hash)
        THEN _generate_diverse_response(c, qa, question, enhanced_context, question_hash)
        ELSE LET result == qa_pipeline(qa, question, enhanced_context, AI_QA_TOP_K_PRIMARY)
             IN  Tag(Primary(c, result, question_hash), "primary", QaTag(result))

\* qa: how the Question Answerer behaves if this call invokes it
answer_question_with_context(c, qa, question, base_context, conversation_history) ==
    LET enhanced_context == _build_enhanced_context(base_context, conversation_history)
        question_hash == _get_question_hash(question)
    IN  IF _is_repetitive_question(question, conversation_history)
        THEN _generate_diverse_response(c, qa, question, enhanced_context, question_hash)
        ELSE LET result == qa_pipeline(qa, question, enhanced_context, AI_QA_TOP_K_PRIMARY)
             IN  Tag(Primary(c, result, question_hash), "primary", QaTag(result))

---------------------------------------------------------------------------
(* Spec: calls made one at a time on the one AIService of the process, each *)
(* with any question, any history and any behaviour of the Question         *)
(* Answerer                                                                 *)

BaseContext == "base"

NoCall ==
    [q |-> <<>>, path |-> "none", qa |-> "none", raised |-> FALSE, value |-> "",
     evicts |-> FALSE, rep |-> FALSE, nstored |-> 0, given |-> <<>>,
     kept |-> <<>>]

Threads == {1, 2}

\* a request thread before its call: pc is the line it is about to run
IdleThread ==
    [pc |-> "idle", q |-> <<>>, hash |-> <<>>, path |-> "none",
     qa |-> [kind |-> "none", cands |-> <<>>], response |-> "", oldest |-> <<>>,
     newkey |-> FALSE, stored |-> FALSE, err |-> "none", raised |-> FALSE,
     value |-> ""]

Idle == [t \in Threads |-> IdleThread]

Init ==
    /\ response_cache = <<>>
    /\ last = NoCall
    /\ ncalls = 0
    /\ history = <<>>
    /\ log = <<>>
    /\ thr = Idle

\* mutant: the call appends its own turn to the list it was given
history_after_appends(question, conversation_history, o) ==
    Append(conversation_history, <<question, o.value>>)

\* the caller's list after the call: the code only tests it (lines 134, 169),
\* slices it (lines 137, 172) and iterates over the slices; slicing makes a
\* new list, the turns are tuples
history_after(question, conversation_history, o) == conversation_history

\* the record of a call of question q with history h that found the cache c
\* and ended as o: rep is the Repetition Detector's verdict, nstored the
\* number of answers c held for the fingerprint, given and kept are the
\* caller's history before and after the call
Record(c, q, h, o) ==
    [q |-> q, path |-> o.path, qa |-> o.qa, raised |-> o.raised, value |-> o.value,
     evicts |-> Keys(c) \ Keys(o.cache) # {},
     rep |-> _is_repetitive_question(q, h),
     nstored |-> IF Contains(c, _get_question_hash(q))
                 THEN Len(getitem(c, _get_question_hash(q))) ELSE 0,
     given |-> h,
     kept |-> history_after(q, h, o)]

Call ==
    /\ ncalls < MaxCalls
    /\ \E q \in Questions, h \in Histories, qa \in QABehaviours :
         \E o \in answer_question_with_context(response_cache, qa, q, BaseContext, h) :
            /\ response_cache' = o.cache
            /\ last' = Record(response_cache, q, h, o)
    /\ ncalls' = ncalls + 1
    /\ UNCHANGED <<history, log, thr>>

Next == Call

Spec == Init /\ [][Next]_vars

LastHash == _get_question_hash(last.q)

\* the call took the diverse path
Repetitive(call) == call.path \in {"stored", "fresh"}

\* the call returned an answer: a candidate's text or a stored answer
Answered(call) == ~call.raised /\ (call.qa = "cands" \/ call.path = "stored")

---------------------------------------------------------------------------
(* Claims on Spec *)

\* C1: answer_question_with_context never raises outward: every call returns
\* a string, whatever the question, the history, the cache and the Question
\* Answerer's behaviour.
C1_NeverRaisesOutward == ~last.raised

\* C2: when a question is judged repetitive and the call returns an answer,
\* the returned text differs from the answer most recently stored for the
\* question's fingerprint before the call.
C2_RepeatNotEchoed ==
    [][LET h == _get_question_hash(last'.q)
       IN  (Repetitive(last') /\ Answered(last') /\ Contains(response_cache, h))
           => last'.value # getitem(response_cache, h)[Len(getitem(response_cache, h))]
      ]_vars

\* C4 as claimed: when the Question Answerer raises, the call returns one and
\* the same fallback string on the primary and on the diverse path: two
\* failed calls in a row return the same string.
C4_OneFallbackString ==
    [][(last.qa = "raise" /\ last'.qa = "raise")
       => (~last'.raised /\ last'.value = last.value)]_vars

\* C4 as amended: when the Question Answerer raises, the call returns a fixed
\* fallback string that depends on the path alone: the apology on the primary
\* path, the "I understand" phrase on the diverse path.
C4_FallbackPerPath ==
    last.qa = "raise"
    => /\ ~last.raised
       /\ last.value = (IF last.path = "primary" THEN APOLOGY ELSE UNDERSTAND)

C4_Witness == last.qa = "raise" /\ last.path = "fresh" /\ ncalls > 1

\* C5: a call in which the Question Answerer raises leaves the Answer Cache
\* as it was: the same fingerprints, in the same order, with the same answers.
C5_FailureKeepsCache ==
    [][last'.qa = "raise" => response_cache' = response_cache]_vars

C5_Witness ==
    /\ last.qa = "raise"
    /\ last.path = "fresh"
    /\ Contains(response_cache, LastHash)
    /\ Len(response_cache) = maxsize

\* C6: the Answer Cache never holds more than maxsize fingerprints, and a
\* call whose Question Answerer supplied a candidate stores and returns it
\* also when the cache is full: the overflow is evicted, nothing is raised.
C6_CapacityRespected ==
    /\ Len(response_cache) <= maxsize
    /\ Cardinality(Keys(response_cache)) = Len(response_cache)
    /\ last.qa = "cands"
       => /\ ~last.raised
          /\ last.value \in Answers
          /\ Contains(response_cache, LastHash)

C6_Witness == last.evicts /\ last.qa = "cands" /\ Len(response_cache) = maxsize

---------------------------------------------------------------------------
(* SpecSession: one chat session of routes/api_routes.py chat(), language   *)
(* eng_Latn, on a fresh AIService.  The Question Answerer raises or returns *)
(* a single candidate.                                                      *)

SessionQuestions == {<<"a", " ", "b">>, <<"b", " ", "a">>} \cup Fillers

SessionQA ==
    {[kind |-> "raise", cands |-> <<>>]}
    \cup {[kind |-> "list", cands |-> <<a>>] : a \in Answers}

\* the call read or extended the stored answers of its fingerprint: it found
\* them on the diverse path (line 216), or it appended its answer
Accesses(c, question_hash, o) ==
    \/ o.path # "primary" /\ Contains(c, question_hash)
    \/ Contains(o.cache, question_hash) /\ o.cache # c

\* lines 52-87 of chat(): the engine gets the last turns of the session's
\* history; an answer is appended to it and the last turns are kept; an
\* exception ends the request (lines 89-95) before the history is touched
\* mutant: the session keeps every turn
keep_last_all(conversation_history) == conversation_history

\* line 80: conversation_history[-10:]
keep_last(conversation_history) == LastN(conversation_history, HISTORY_KEPT)

\* one request with the message user_message, the Question Answerer behaving
\* as qa
chat_request(user_message, qa) ==
    LET recent_history == LastN(history, HISTORY_PASSED)
        question_hash == _get_question_hash(user_message)
    IN  \E o \in answer_question_with_context(response_cache, qa, user_message,
                                              BaseContext, recent_history) :
           /\ response_cache' = o.cache
           /\ last' = Record(response_cache, user_message, recent_history, o)
           /\ history' = IF o.raised THEN history
                         ELSE keep_last(Append(history, <<user_message, o.value>>))
           /\ log' = Append(log, [q |-> user_message, cands |-> qa.cands,
                                  raised |-> o.raised, value |-> o.value,
                                  hash |-> question_hash,
                                  access |-> Accesses(response_cache,
                                                      question_hash, o)])

chat ==
    /\ Len(log) < MaxTurns
    /\ \E user_message \in SessionQuestions, qa \in SessionQA :
         chat_request(user_message, qa)
    /\ ncalls' = ncalls + 1
    /\ UNCHANGED thr

NextSession == chat

SpecSession == Init /\ [][NextSession]_vars

\* the calls of the session that read or extended their fingerprint's answers
AccessLog == SelectSeq(log, LAMBDA e : e.access)

Distinct(seq) == \A i, j \in 1..Len(seq) : i # j => seq[i] # seq[j]

HashesOf(entries) == [i \in 1..Len(entries) |-> entries[i].hash]

\* the fingerprints a true LRU cache of maxsize entries would hold after the
\* accesses of hs, least recently used first
RECURSIVE LRUOrder(_)
LRUOrder(hs) ==
    IF hs = <<>> THEN <<>>
    ELSE LET before == LRUOrder(SubSeq(hs, 1, Len(hs) - 1))
             h == hs[Len(hs)]
             moved == Append(SelectSeq(before, LAMBDA k : k # h), h)
         IN  LastN(moved, maxsize)

---------------------------------------------------------------------------
(* Claims on SpecSession *)

\* C3: the same question sent n times in a row, each turn appended to the
\* history, the Question Answerer always returning the single candidate "42":
\* every call returns "42" and the fingerprint's stored answers are n "42"s.
C3_SameQuestionInSequence ==
    \A q \in SessionQuestions :
        (/\ log # <<>>
         /\ \A i \in 1..Len(log) : log[i].q = q /\ log[i].cands = <<"42">>)
        => /\ \A i \in 1..Len(log) : ~log[i].raised /\ log[i].value = "42"
           /\ history = [i \in 1..Len(log) |-> <<q, "42">>]
           /\ Contains(response_cache, _get_question_hash(q))
           /\ getitem(response_cache, _get_question_hash(q))
                = [i \in 1..Len(log) |-> "42"]

\* C7: the Answer Cache is a true LRU: reads and appends both refresh a
\* fingerprint, so the cache holds the maxsize most recently accessed
\* fingerprints: a first-inserted fingerprint that was accessed again after
\* later insertions is not the one evicted.
C7_EvictsLeastRecentlyAccessed ==
    Keys(response_cache) = Range(LRUOrder(HashesOf(AccessLog)))

\* C8: after maxsize + 1 distinct fingerprints were inserted, none accessed
\* again, the cache holds exactly maxsize entries: all of them but the first
\* inserted.
C8_FillBeyondCapacity ==
    (Len(AccessLog) = maxsize + 1 /\ Distinct(HashesOf(AccessLog)))
    => /\ Len(response_cache) = maxsize
       /\ Keys(response_cache) = {AccessLog[i].hash : i \in 2..(maxsize + 1)}
       /\ response_cache[maxsize].key = AccessLog[maxsize + 1].hash

C8_Witness ==
    /\ Len(AccessLog) = maxsize + 1
    /\ Distinct(HashesOf(AccessLog))
    /\ last.evicts

---------------------------------------------------------------------------
(* SpecConc: two request threads, each running answer_question_with_context *)
(* once on the shared ai_service, interleaved line by line; before them,    *)
(* earlier calls (one at a time) put up to maxsize answers in the cache.    *)
(* No lock guards response_cache.  pc names the line a thread runs next:    *)
(*   l110, l221      the qa_pipeline call and the choice of the response    *)
(*   l215, l216      the diverse path's look at the stored answers          *)
(*   l277            if question_hash not in self.response_cache (or 240)   *)
(*   l26 .. l31      LRUCache.__setitem__(question_hash, [])                *)
(*   l279            self.response_cache[question_hash].append (or 242)     *)

ConcFillers == {<<FillerLetters[i]>> : i \in 1..Min(maxsize, Len(FillerLetters))}

ConcQuestions == {<<"a", " ", "b">>, <<"b", " ", "a">>} \cup ConcFillers

ConcQA ==
    {[kind |-> "raise", cands |-> <<>>]}
    \cup {[kind |-> "dict", cands |-> <<a>>] : a \in Answers}

Goto(t, pc) == thr' = [thr EXCEPT ![t].pc = pc]

\* an exception inside the try block of the thread's path: the except clause
\* returns the path's fallback
Caught(t, site) ==
    thr' = [thr EXCEPT ![t].pc = "done", ![t].err = site,
                       ![t].value = IF thr[t].path = "primary"
                                    THEN APOLOGY ELSE UNDERSTAND]

\* an exception outside any try block leaves answer_question_with_context
Raised(t, site) ==
    thr' = [thr EXCEPT ![t].pc = "done", ![t].err = site, ![t].raised = TRUE,
                       ![t].value = site]

\* an earlier call, run to its end before the two threads start
WarmUp ==
    /\ \A t \in Threads : thr[t].pc = "idle"
    /\ ncalls < maxsize
    /\ \E q \in ConcQuestions :
         \E o \in answer_question_with_context(
                     response_cache, [kind |-> "dict", cands |-> <<"42">>], q,
                     BaseContext, <<>>) :
            response_cache' = o.cache
    /\ ncalls' = ncalls + 1
    /\ UNCHANGED <<last, history, log, thr>>

\* lines 103-107: the context, the fingerprint and the repetition check
Start(t) ==
    /\ thr[t].pc = "idle"
    /\ \E q \in ConcQuestions, h \in Histories, qa \in ConcQA :
         LET rep == _is_repetitive_question(q, h)
             question_hash == _get_question_hash(q)
         IN  thr' = [thr EXCEPT ![t] =
                        [@ EXCEPT !.pc = IF rep THEN "l215" ELSE "l110",
                                  !.q = q,
                                  !.hash = question_hash,
                                  !.path = IF rep THEN "diverse" ELSE "primary",
                                  !.qa = qa,
                                  !.newkey = /\ ~Contains(response_cache, question_hash)
                                             /\ Len(response_cache) >= maxsize]]
    /\ UNCHANGED <<response_cache, last, ncalls, history, log>>

\* lines 110-117 and 260-275, or 221-238: the Question Answerer and the choice
InvokeQA(t) ==
    /\ thr[t].pc \in {"l110", "l221"}
    /\ LET primary == thr[t].pc = "l110"
           result == qa_pipeline(thr[t].qa, thr[t].q, BaseContext,
                                 IF primary THEN AI_QA_TOP_K_PRIMARY
                                 ELSE AI_QA_TOP_K_DIVERSE)
           choices == IF primary THEN PrimaryChoices(result)
                      ELSE DiverseChoices(result)
       IN  IF result.kind = "raise" THEN Caught(t, "qa")
           ELSE IF choices = {} THEN Caught(t, "choice")
           ELSE \E response \in choices :
                   thr' = [thr EXCEPT ![t].pc = "l277", ![t].response = response]
    /\ UNCHANGED <<response_cache, last, ncalls, history, log>>

\* line 215: if question_hash in self.response_cache
L215(t) ==
    /\ thr[t].pc = "l215"
    /\ Goto(t, IF Contains(response_cache, thr[t].hash) THEN "l216" ELSE "l221")
    /\ UNCHANGED <<response_cache, last, ncalls, history, log>>

\* lines 216-218: the stored answers, outside the try block
L216(t) ==
    /\ thr[t].pc = "l216"
    /\ IF ~Contains(response_cache, thr[t].hash) THEN Raised(t, "KeyError")
       ELSE LET cached_responses == getitem(response_cache, thr[t].hash)
            IN  IF Len(cached_responses) > 1
                THEN IF NotLast(cached_responses) = <<>> THEN Raised(t, "IndexError")
                     ELSE \E r \in Range(NotLast(cached_responses)) :
                            thr' = [thr EXCEPT ![t].pc = "done", ![t].value = r]
                ELSE Goto(t, "l221")
    /\ UNCHANGED <<response_cache, last, ncalls, history, log>>

\* line 277 (240): if question_hash not in self.response_cache
L277(t) ==
    /\ thr[t].pc = "l277"
    /\ Goto(t, IF Contains(response_cache, thr[t].hash) THEN "l279" ELSE "l26")
    /\ UNCHANGED <<response_cache, last, ncalls, history, log>>

\* line 26: if key in self
L26(t) ==
    /\ thr[t].pc = "l26"
    /\ Goto(t, IF Contains(response_cache, thr[t].hash) THEN "l27" ELSE "l28")
    /\ UNCHANGED <<response_cache, last, ncalls, history, log>>

\* line 27: self.move_to_end(key)
L27(t) ==
    /\ thr[t].pc = "l27"
    /\ IF Contains(response_cache, thr[t].hash)
       THEN /\ response_cache' = move_to_end(response_cache, thr[t].hash)
            /\ Goto(t, "l28")
       ELSE /\ Caught(t, "setitem")
            /\ UNCHANGED response_cache
    /\ UNCHANGED <<last, ncalls, history, log>>

\* line 28: super().__setitem__(key, value), value the new empty list
L28(t) ==
    /\ thr[t].pc = "l28"
    /\ response_cache' = dict_setitem(response_cache, thr[t].hash, <<>>)
    /\ Goto(t, "l29")
    /\ UNCHANGED <<last, ncalls, history, log>>

\* line 29: if len(self) > self.maxsize
L29(t) ==
    /\ thr[t].pc = "l29"
    /\ Goto(t, IF Len(response_cache) > maxsize THEN "l30" ELSE "l279")
    /\ UNCHANGED <<response_cache, last, ncalls, history, log>>

\* line 30: oldest = next(iter(self))
L30(t) ==
    /\ thr[t].pc = "l30"
    /\ IF response_cache = <<>> THEN Caught(t, "setitem")
       ELSE thr' = [thr EXCEPT ![t].pc = "l31",
                               ![t].oldest = oldest_key(response_cache)]
    /\ UNCHANGED <<response_cache, last, ncalls, history, log>>

\* line 31: del self[oldest]
L31(t) ==
    /\ thr[t].pc = "l31"
    /\ IF Contains(response_cache, thr[t].oldest)
       THEN /\ response_cache' = delitem(response_cache, thr[t].oldest)
            /\ Goto(t, "l279")
       ELSE /\ Caught(t, "setitem")
            /\ UNCHANGED response_cache
    /\ UNCHANGED <<last, ncalls, history, log>>

\* line 279 (242): self.response_cache[question_hash].append(response)
L279(t) ==
    /\ thr[t].pc = "l279"
    /\ IF Contains(response_cache, thr[t].hash)
       THEN /\ response_cache' = list_append(response_cache, thr[t].hash,
                                             thr[t].response)
            /\ thr' = [thr EXCEPT ![t].pc = "done", ![t].stored = TRUE,
                                  ![t].value = thr[t].response]
       ELSE /\ Caught(t, "append")
            /\ UNCHANGED response_cache
    /\ UNCHANGED <<last, ncalls, history, log>>

NextConc ==
    \/ WarmUp
    \/ \E t \in Threads :
         \/ Start(t) \/ InvokeQA(t) \/ L215(t) \/ L216(t) \/ L277(t)
         \/ L26(t) \/ L27(t) \/ L28(t) \/ L29(t) \/ L30(t) \/ L31(t) \/ L279(t)

SpecConc == Init /\ [][NextConc]_vars

AllDone == \A t \in Threads : thr[t].pc = "done"

---------------------------------------------------------------------------
(* Claims on SpecConc *)

\* C9: the read-check-append sequence on the shared cache is atomic: when two
\* concurrent calls have both recorded an answer for the same fingerprint,
\* the fingerprint's stored list holds both answers.
C9_NoLostUpdate ==
    \A t, u \in Threads :
        (/\ t # u
         /\ AllDone
         /\ thr[t].stored /\ thr[u].stored
         /\ thr[t].hash = thr[u].hash)
        => /\ Contains(response_cache, thr[t].hash)
           /\ {thr[t].value, thr[u].value}
                \subseteq Range(getitem(response_cache, thr[t].hash))

\* C10: concurrent calls that insert distinct new fingerprints into a full
\* cache never fail inside LRUCache.__setitem__, and once they have all
\* completed the cache holds at most maxsize fingerprints, no fingerprint
\* twice.
C10_EvictionSafe ==
    (/\ \A t \in Threads : thr[t].newkey
     /\ \A t, u \in Threads : t # u => thr[t].hash # thr[u].hash)
    => /\ \A t \in Threads : thr[t].err # "setitem"
       /\ AllDone => /\ Len(response_cache) <= maxsize
                     /\ Cardinality(Keys(response_cache)) = Len(response_cache)

---------------------------------------------------------------------------
(* SpecHelpers: _calculate_similarity, _is_repetitive_question and          *)
(* _build_enhanced_context called on their own, as test_conversation_context *)
(* does, one call in a run; last holds its arguments and its result         *)

TheMatrix == <<"W", "h", "a", "t", " ", "i", "s", " ", "t", "h", "e", " ", "M", "a", "t", "r", "i", "x", "?">>

CookPasta == <<"H", "o", "w", " ", "d", "o", " ", "I", " ", "c", "o", "o", "k", " ", "p", "a", "s", "t", "a", "?">>

\* the empty and the blank text; texts with the words of "a b" in another
\* order, case or number; other blanks; texts of 7, 8 and 10 words, 7 of 10
\* being the threshold itself
Texts ==
    {<<>>,
     <<" ">>,
     <<"a", " ", "b">>,
     <<"b", " ", "a">>,
     <<"A", " ", "b", " ">>,
     <<"a", " ", "a", " ", "b">>,
     <<"c", " ", "d">>,
     <<"a", "\t", "b", "\n", "c">>,
     <<"a", " ", "b", " ", "c", " ", "d", " ", "e", " ", "f", " ", "g">>,
     <<"a", " ", "b", " ", "c", " ", "d", " ", "e", " ", "f", " ", "g", " ", "h">>,
     <<"a", " ", "b", " ", "c", " ", "d", " ", "e", " ", "f", " ", "g", " ", "h", " ", "i", " ", "j">>,
     TheMatrix, CookPasta}

\* a question that shares no word with Texts
Unrelated == <<"z">>

\* a history of n turns that asked p at the positions of at, something
\* unrelated elsewhere
HistoryWith(p, at, n) ==
    [i \in 1..n |-> <<IF i \in at THEN p ELSE Unrelated,
                      IF i % 2 = 1 THEN "A" ELSE "B">>]

\* the j-th of a series of turns that all differ
NthTurn(j) == <<[i \in 1..j |-> "x"], [i \in 1..j |-> "y"]>>

similarity ==
    /\ ncalls = 0
    /\ \E text1 \in Texts, text2 \in Texts :
         last' = [op |-> "similarity", text1 |-> text1, text2 |-> text2,
                  result |-> _calculate_similarity(text1, text2)]
    /\ ncalls' = 1
    /\ UNCHANGED <<response_cache, history, log, thr>>

is_repetitive ==
    /\ ncalls = 0
    /\ \E question \in Texts, p \in Texts, n \in 0..MaxTurnsGiven :
         \E i \in 0..n, j \in 0..n :
            LET conversation_history == HistoryWith(p, {i, j} \ {0}, n)
            IN  last' = [op |-> "is_repetitive", question |-> question,
                         conversation_history |-> conversation_history,
                         result |-> _is_repetitive_question(question,
                                                            conversation_history)]
    /\ ncalls' = 1
    /\ UNCHANGED <<response_cache, history, log, thr>>

augment ==
    /\ ncalls = 0
    /\ \E base_context \in {"", BaseContext}, n \in 0..MaxTurnsGiven, first \in 0..2 :
         LET conversation_history == [i \in 1..n |-> NthTurn(first + i)]
         IN  last' = [op |-> "augment", base_context |-> base_context,
                      conversation_history |-> conversation_history,
                      result |-> _build_enhanced_context(base_context,
                                                         conversation_history)]
    /\ ncalls' = 1
    /\ UNCHANGED <<response_cache, history, log, thr>>

NextHelpers == similarity \/ is_repetitive \/ augment

SpecHelpers == Init /\ [][NextHelpers]_vars

\* the latest call was a call of op
Called(op) == "op" \in DOMAIN last /\ last.op = op

\* the unique whitespace-separated tokens of s: the maximal runs without a
\* blank
TokenSet(s) ==
    {SubSeq(s, r[1], r[2]) :
        r \in {x \in (1..Len(s)) \X (1..Len(s)) :
                 /\ x[1] <= x[2]
                 /\ \A k \in x[1]..x[2] : ~IsSpace(s[k])
                 /\ x[1] = 1 \/ IsSpace(s[x[1] - 1])
                 /\ x[2] = Len(s) \/ IsSpace(s[x[2] + 1])}}

\* |A \cap B| / |A \cup B| as a fraction, 0 when a set is empty
Jaccard(A, B) ==
    IF A = {} \/ B = {} THEN [num |-> 0, den |-> 1]
    ELSE [num |-> Cardinality(A \cap B), den |-> Cardinality(A \cup B)]

SameFraction(x, y) == x.num * y.den = y.num * x.den

---------------------------------------------------------------------------
(* Further claims on Spec *)

FallbackStrings == {APOLOGY, UNDERSTAND}

\* C11: a call invokes the Question Answerer once when the question is judged
\* novel, once when it is judged repetitive and at most one answer is stored
\* for its fingerprint, and not at all when it is judged repetitive and more
\* than one answer is stored; an invocation that raises ends the call with
\* the fallback, the cache untouched by any second attempt.
C11_InvokesOnceOrNever ==
    last.path # "none"
    => /\ ~last.rep => (last.path = "primary" /\ last.qa # "none")
       /\ (last.rep /\ last.nstored <= 1) => (last.path = "fresh" /\ last.qa # "none")
       /\ (last.rep /\ last.nstored > 1) => (last.path = "stored" /\ last.qa = "none")
       /\ last.qa = "raise" => (~last.raised /\ last.value \in FallbackStrings)

C11_Witness ==
    /\ last.rep /\ last.nstored = 1 /\ last.qa = "cands"
    /\ Len(getitem(response_cache, LastHash)) = 2

\* C12: a call that returns an answer, on the primary path, on the diverse
\* path with fresh candidates or on the diverse path served from the stored
\* answers, never returns the empty string.
C12_NoEmptyAnswer == Answered(last) => last.value # ""

C12_Witness == last.path = "stored" /\ ~last.raised /\ last.nstored > 1

\* C13: the history handed to answer_question_with_context holds the same
\* turns in the same order after the call, whether the call returned an
\* answer or the fallback.
C13_HistoryNotMutated == last.path # "none" => last.kept = last.given

C13_Witness == last.given # <<>> /\ last.rep /\ last.qa = "raise"

\* C18: a call served from the stored answers returns one of the answers
\* stored before the most recent one; with exactly two stored answers it
\* returns the first.
C18_StoredOtherThanLatest ==
    last.path = "stored"
    => LET stored == getitem(response_cache, LastHash)
       IN  /\ ~last.raised
           /\ last.value \in Range(FirstN(stored, Len(stored) - 1))
           /\ Len(stored) = 2 => last.value = stored[1]

\* C19: every string in the Answer Cache is the text of a candidate the
\* Question Answerer returned: no fallback phrase is ever stored.
C19_OnlyCandidateTextsStored ==
    \A i \in 1..Len(response_cache) : Range(response_cache[i].val) \subseteq Answers

---------------------------------------------------------------------------
(* Claims on SpecHelpers *)

\* the turns of h that the Repetition Detector looks at
InWindow(h) == {i \in 1..Len(h) : i > Len(h) - REPETITION_HISTORY_WINDOW}

\* the similarity of the lower-cased texts is strictly above 7/10
StrictlyAbove(question, earlier) ==
    LET sim == Jaccard(TokenSet(lower(question)), TokenSet(lower(earlier)))
    IN  sim.num * THRESHOLD_DEN > THRESHOLD_NUM * sim.den

\* C14: _is_repetitive_question is true exactly when a question among the
\* last REPETITION_HISTORY_WINDOW turns has, both sides lower-cased, a
\* similarity strictly greater than the threshold; a similarity equal to the
\* threshold does not count and an empty history gives false; two turns of
\* "What is the Matrix?" make "What is the Matrix?" repetitive, one turn of
\* "How do I cook pasta?" does not.
C14_RepetitiveIffAboveThreshold ==
    Called("is_repetitive")
    => LET h == last.conversation_history
       IN  /\ last.result = (\E i \in InWindow(h) : StrictlyAbove(last.question, h[i][1]))
           /\ h = <<>> => ~last.result
           /\ (/\ last.question = TheMatrix
               /\ h = <<<<TheMatrix, "A">>, <<TheMatrix, "B">>>>) => last.result
           /\ (/\ last.question = TheMatrix
               /\ h = <<<<CookPasta, "A">>>>) => ~last.result

\* a turn of the window is exactly at the threshold, none is above it
C14_Witness ==
    /\ Called("is_repetitive")
    /\ ~last.result
    /\ \E i \in InWindow(last.conversation_history) :
         LET sim == Jaccard(TokenSet(lower(last.question)),
                            TokenSet(lower(last.conversation_history[i][1])))
         IN  sim.num * THRESHOLD_DEN = THRESHOLD_NUM * sim.den

\* C15 as claimed: similarity(q, q) is 1 for every question q that is not the
\* empty string.
C15_SelfSimilarityOne ==
    (Called("similarity") /\ last.text1 = last.text2 /\ last.text1 # <<>>)
    => last.result.num = last.result.den

\* C15 as amended: similarity(q, q) is 1 for every question q that holds at
\* least one word, and 0 for the empty string and for a string of blanks.
C15_SelfSimilarityOfWords ==
    (Called("similarity") /\ last.text1 = last.text2)
    => IF TokenSet(last.text1) # {}
       THEN last.result.num = last.result.den
       ELSE last.result.num = 0 /\ last.result.den > 0

\* a question that repeats a word, compared with itself
C15_Witness ==
    /\ Called("similarity")
    /\ last.text1 = last.text2
    /\ Len(split(last.text1)) > Cardinality(TokenSet(last.text1))
    /\ last.result.num = last.result.den

\* C16: _calculate_similarity(a, b) is |A \cap B| / |A \cup B| over the sets
\* of unique whitespace-separated tokens; it is 0 when a token set is empty
\* and when the two share no token, lies in [0, 1], and is the same for
\* (b, a).
C16_JaccardOfTokenSets ==
    Called("similarity")
    => LET A == TokenSet(last.text1)
           B == TokenSet(last.text2)
           sim == last.result
       IN  /\ sim.den > 0
           /\ SameFraction(sim, Jaccard(A, B))
           /\ (A = {} \/ B = {}) => sim.num = 0
           /\ A \cap B = {} => sim.num = 0
           /\ 0 <= sim.num /\ sim.num <= sim.den
           /\ SameFraction(sim, _calculate_similarity(last.text2, last.text1))

\* texts that share some of their words, one of them holding more words
C16_Witness ==
    /\ Called("similarity")
    /\ 0 < last.result.num /\ last.result.num < last.result.den
    /\ Cardinality(TokenSet(last.text1)) < Cardinality(TokenSet(last.text2))

\* C17: _build_enhanced_context returns base_context alone for an empty
\* history; otherwise base_context, the header and the blocks of the last
\* min(CONVERSATION_RECENT_EXCHANGES, len(history)) turns, in the order of the
\* history, and no block of an older turn.
C17_AugmentLatestTurns ==
    Called("augment")
    => LET h == last.conversation_history
           n == Len(h)
           k == Min(CONVERSATION_RECENT_EXCHANGES, n)
           out == last.result
       IN  IF n = 0 THEN out = <<last.base_context>>
           ELSE /\ Len(out) = 2 + k
                /\ out[1] = last.base_context
                /\ out[2] = "\n\nRecent Conversation Context:\n"
                /\ \A j \in 1..k :
                     out[2 + j] = [q |-> h[n - k + j][1], a |-> h[n - k + j][2]]
                /\ \A i \in 1..(n - k), j \in 3..Len(out) :
                     out[j].q # h[i][1] /\ out[j].a # h[i][2]

C17_Witness ==
    /\ Called("augment")
    /\ Len(last.conversation_history) > CONVERSATION_RECENT_EXCHANGES
    /\ Len(last.result) = 2 + CONVERSATION_RECENT_EXCHANGES

---------------------------------------------------------------------------
(* Further claims on SpecConc *)

IsPrefix(s, t) == Len(s) <= Len(t) /\ SubSeq(t, 1, Len(s)) = s

\* C20: while a fingerprint stays in the Answer Cache its stored answers are
\* append-only: across any step the old list is a prefix of the new one, and
\* the new one is at most one answer longer.
C20_StoredAnswersAppendOnly ==
    [][\A k \in Keys(response_cache) \cap Keys(response_cache') :
          /\ IsPrefix(getitem(response_cache, k), getitem(response_cache', k))
          /\ Len(getitem(response_cache', k)) <= Len(getitem(response_cache, k)) + 1
      ]_vars

---------------------------------------------------------------------------
(* Claims on Spec about the paths and the cache's frame *)

\* the fallback of the path a call took
FallbackOf(path) == IF path = "primary" THEN APOLOGY ELSE UNDERSTAND

\* C21: when the Question Answerer returns zero candidates (an empty list, or
\* an empty result of another type), the call ends as when it raises: it
\* returns the fallback of its path and leaves the Answer Cache unchanged.
C21_NoCandidatesLikeRaise ==
    [][last'.qa \in {"empty", "other"}
       => /\ ~last'.raised
          /\ last'.value = FallbackOf(last'.path)
          /\ response_cache' = response_cache]_vars

\* C22: a call takes the diverse path exactly when the Repetition Detector
\* judges (question, history) repetitive, whatever the Answer Cache holds.
C22_PathFromDetectorAlone ==
    last.path # "none" => (Repetitive(last) <=> last.rep)

\* a novel question whose fingerprint already has stored answers
C22_Witness == last.path = "primary" /\ last.nstored > 1

\* C26: a call reads and extends the cache entry of its own fingerprint
\* only: "a b" and "A b " share the entry of "a b"; the stored answers of
\* every other fingerprint are left as they were, also for "b a", which the
\* Repetition Detector judges similar to "a b"; an answer served from the
\* store comes from the fingerprint's own list.
C26_OwnFingerprintOnly ==
    [][LET h == _get_question_hash(last'.q)
       IN  /\ \A k \in (Keys(response_cache) \cap Keys(response_cache')) \ {h} :
                getitem(response_cache', k) = getitem(response_cache, k)
           /\ last'.q \in {<<"a", " ", "b">>, <<"A", " ", "b", " ">>}
              => h = md5(<<"a", " ", "b">>)
           /\ last'.q = <<"b", " ", "a">> => h # md5(<<"a", " ", "b">>)
           /\ (last'.path = "stored" /\ ~last'.raised)
              => last'.value \in Range(getitem(response_cache, h))
           /\ (Answered(last') /\ last'.path # "stored")
              => /\ Contains(response_cache', h)
                 /\ getitem(response_cache', h)
                      = Append(IF Contains(response_cache, h)
                               THEN getitem(response_cache, h) ELSE <<>>,
                               last'.value)
      ]_vars

\* "A b " was judged repetitive and extended the entry that "a b" created,
\* another fingerprint's entry standing by
C26_Witness ==
    /\ last.q = <<"A", " ", "b", " ">>
    /\ last.rep /\ last.nstored = 1 /\ Answered(last)
    /\ Len(response_cache) = maxsize

C29_NoEmptyEntry ==
    \A i \in 1..Len(response_cache) : response_cache[i].val # <<>>

\* a new entry took the place of an evicted one
C29_Witness ==
    /\ last.evicts /\ last.nstored = 0 /\ last.rep
    /\ Contains(response_cache, LastHash)

---------------------------------------------------------------------------
(* Further claims on SpecHelpers *)

\* the history with its i-th turn and its last turn exchanged
MovedToEnd(h, i) ==
    [j \in 1..Len(h) |-> IF j = i THEN h[Len(h)] ELSE IF j = Len(h) THEN h[i] ELSE h[j]]

\* turn i lies before the window and asks a question above the threshold,
\* no turn of the window does
OnlyBeforeWindow(question, h, i) ==
    /\ i \in (1..Len(h)) \ InWindow(h)
    /\ StrictlyAbove(question, h[i][1])
    /\ \A j \in InWindow(h) : ~StrictlyAbove(question, h[j][1])

\* C25: an earlier question above the threshold that lies before the last
\* REPETITION_HISTORY_WINDOW turns does not make the question repetitive;
\* with that same turn moved into the window the question is repetitive.
C25_ScopedToWindow ==
    Called("is_repetitive")
    => \A i \in 1..Len(last.conversation_history) :
          OnlyBeforeWindow(last.question, last.conversation_history, i)
          => /\ ~last.result
             /\ _is_repetitive_question(last.question,
                                        MovedToEnd(last.conversation_history, i))

C25_Witness ==
    /\ Called("is_repetitive")
    /\ \E i \in 1..Len(last.conversation_history) :
         OnlyBeforeWindow(last.question, last.conversation_history, i)
    /\ last.question # last.conversation_history[1][1]

---------------------------------------------------------------------------
(* SpecSelect: one call whose Question Answerer ranks a longer pool of       *)
(* candidates, after earlier calls (WarmUp) have stored answers; last also   *)
(* holds the pool the call got and the answers stored before it              *)

\* rankings of candidate texts: all different; with repeats; all equal; the
\* second text repeated
BasePools ==
    {<<"42", "B", "C", "D", "E", "F">>,
     <<"42", "42", "B", "C", "B", "D">>,
     <<"42", "42", "42", "42", "42", "42">>,
     <<"B", "42", "42", "C", "D", "E">>}

Pools == {FirstN(p, n) : p \in BasePools, n \in 0..MaxPool}

SelectQA ==
    {[kind |-> "list", cands |-> p] : p \in Pools}
    \cup {[kind |-> "dict", cands |-> <<a>>] : a \in Answers}

SelectQuestions == {<<"a", " ", "b">>, <<"b", " ", "a">>}

\* the record of the call, with what the Question Answerer returned to it
\* (nothing when it was not invoked) and the answers stored before
SelectRecord(c, q, h, qa, o) ==
    LET r == Record(c, q, h, o)
        result == qa_pipeline(qa, q, BaseContext,
                              IF o.path = "primary" THEN AI_QA_TOP_K_PRIMARY
                              ELSE AI_QA_TOP_K_DIVERSE)
        invoked == o.qa # "none"
    IN  [q |-> r.q, path |-> r.path, qa |-> r.qa, raised |-> r.raised,
         value |-> r.value, evicts |-> r.evicts, rep |-> r.rep,
         nstored |-> r.nstored, given |-> r.given, kept |-> r.kept,
         kind |-> IF invoked THEN result.kind ELSE "none",
         pool |-> IF invoked THEN result.cands ELSE <<>>,
         before |-> IF Contains(c, _get_question_hash(q))
                    THEN getitem(c, _get_question_hash(q)) ELSE <<>>]

Select ==
    /\ ncalls <= maxsize
    /\ \E question \in SelectQuestions, h \in Histories, qa \in SelectQA :
         \E o \in answer_question_with_context(response_cache, qa, question,
                                               BaseContext, h) :
            /\ response_cache' = o.cache
            /\ last' = SelectRecord(response_cache, question, h, qa, o)
    /\ ncalls' = maxsize + 1
    /\ UNCHANGED <<history, log, thr>>

NextSelect == WarmUp \/ Select

SpecSelect == Init /\ [][NextSelect]_vars

Selected == "pool" \in DOMAIN last

\* the positions of the pool whose text differs from the first candidate's
Others(pool) == {i \in 1..Len(pool) : pool[i] # pool[1]}

---------------------------------------------------------------------------
(* Claims on SpecSelect *)

\* C23: on the primary path with a non-empty candidate list the returned
\* answer is the first candidate's text or the first text that differs from
\* it (the first one when all texts are equal), never a third distinct text,
\* and exactly that text is appended to the fingerprint's stored answers.
C23_PrimaryFirstTwoDistinct ==
    (Selected /\ last.path = "primary" /\ last.kind = "list" /\ last.pool # <<>>)
    => /\ ~last.raised
       /\ Others(last.pool) = {} => last.value = last.pool[1]
       /\ Others(last.pool) # {}
          => last.value \in
               {last.pool[1],
                last.pool[CHOOSE i \in Others(last.pool) :
                             \A j \in Others(last.pool) : i <= j]}
       /\ Contains(response_cache, LastHash)
       /\ getitem(response_cache, LastHash) = Append(last.before, last.value)

\* three distinct texts were ranked, the second distinct one was returned
\* and joined an earlier answer
C23_Witness ==
    /\ Selected /\ last.path = "primary"
    /\ Cardinality(Range(last.pool)) >= 3
    /\ last.value # last.pool[1]
    /\ last.before # <<>>

\* C24: on the diverse path with at most one stored answer the returned
\* answer is the text of one of the first 3 candidates of the fresh pool (of
\* all of them when there are fewer), and exactly that text is appended to
\* the fingerprint's stored answers.
C24_DiverseFirstThree ==
    (Selected /\ last.path = "fresh" /\ last.qa = "cands")
    => /\ ~last.raised
       /\ Len(last.before) <= 1
       /\ \E i \in 1..Len(last.pool) : i <= 3 /\ last.value = last.pool[i]
       /\ Contains(response_cache, LastHash)
       /\ getitem(response_cache, LastHash) = Append(last.before, last.value)

\* a pool whose fourth text is none of the first three; the third was
\* returned and joined the one stored answer
C24_Witness ==
    /\ Selected /\ last.path = "fresh"
    /\ Len(last.pool) >= 4
    /\ \A i \in 1..3 : last.pool[4] # last.pool[i]
    /\ last.value = last.pool[3]
    /\ Len(last.before) = 1

---------------------------------------------------------------------------
(* SpecLongSession: a session that goes on asking one question, long enough *)
(* for its history to be cut; the Question Answerer returns "42" or "B"     *)

LongQuestions == {<<"c">>}

LongQA == {[kind |-> "list", cands |-> <<a>>] : a \in Answers}

long_chat ==
    /\ Len(log) < MaxLongTurns
    /\ \E user_message \in LongQuestions, qa \in LongQA :
         chat_request(user_message, qa)
    /\ ncalls' = ncalls + 1
    /\ UNCHANGED thr

NextLongSession == long_chat

SpecLongSession == Init /\ [][NextLongSession]_vars

\* the requests of the session that got an answer
Served == SelectSeq(log, LAMBDA e : ~e.raised)

\* C27: the session's history never holds more than 10 turns; a request that
\* obtains an answer appends the one turn (message, response) at the end and
\* drops the oldest turn beyond 10; the engine is handed the last 5 turns, at
\* most, of the history as it was before the request.
C27_HistoryKeptAndPassed ==
    [][/\ Len(history') <= 10
       /\ Len(last'.given) <= 5
       /\ last'.given = IF Len(history) <= 5 THEN history
                        ELSE SubSeq(history, Len(history) - 4, Len(history))
       /\ IF last'.raised THEN history' = history
          ELSE LET turn == <<last'.q, last'.value>>
               IN  history' = IF Len(history) < 10 THEN Append(history, turn)
                              ELSE Append(Tail(history), turn)
      ]_vars

\* an eleventh answer pushed the first turn out
C27_Witness ==
    /\ Len(Served) > 10
    /\ Len(history) = 10
    /\ ~last.raised
    /\ history[10] = <<last.q, last.value>>
    /\ Len(last.given) = 5

===========================================================================
